---- MODULE Spec2Model ----
(***************************************************************************)
(* A model of solana-arborist: the transaction orchestrator                *)
(* (SolanaClient::send_transaction, src/src/solana.rs, and its copy in     *)
(* src/src/main.rs) and the Merkle tree capacity computation (tree_size,   *)
(* merkle_tree_get_size, canopy_size, src/src/bubblegum.rs, and the copy   *)
(* inlined in create_tree of src/src/main.rs).                             *)
(*                                                                         *)
(* and signer resolution (parse_signer_source, keypair_from_path,          *)
(* keypair_from_seed_phrase, src/src/signer.rs).                           *)
(*                                                                         *)
(* Spec        the transaction orchestrator                                *)
(* SizeSpec    the capacity computation                                    *)
(* ParseSpec   parse_signer_source                                         *)
(* SignerSpec  keypair_from_path and keypair_from_seed_phrase              *)
(* RunSpec     a create-tree invocation from run() to the confirmation     *)
(***************************************************************************)
EXTENDS Integers, Sequences, FiniteSets, TLC

VARIABLES
    build,          \* the cargo profile the binary was built with
    pc,             \* send_transaction: the position of the call
    signers,        \* send_transaction: the key pairs passed as `signers`
    required,       \* send_transaction: payer and the signer accounts of `instructions`
    blockhash,      \* send_transaction: the blockhashes fetched so far, in order
    txn,            \* send_transaction: the signed transaction, <<>> before signing
    sig,            \* send_transaction: the signature the node returned, <<>> before
    requests,       \* the node requests issued by the current call, in order
    result,         \* what the current call returned, <<>> while it runs
    stdout,         \* the lines the process has printed
    calls,          \* the number of calls of send_transaction made so far
    SIZES,          \* bubblegum.rs: the lazy static table, <<>> until first use
    call,           \* capacity: the function under call and its arguments
    returned,       \* capacity: the values the calls made so far have returned
    token,          \* signer: the signer source token (the keypair path)
    files,          \* signer: the paths that exist on the file system
    sargs,          \* signer: SignerArgs
    spc,            \* signer: the position of keypair_from_path
    source,         \* signer: what parse_signer_source returned, <<>> before
    locals,         \* signer: the locals of keypair_from_seed_phrase
    io,             \* signer: the terminal and file operations done, in order
    sresult,        \* signer: what keypair_from_path returned, <<>> before
    exit_code,      \* the exit status of the process, None while it runs
    run             \* run(): the stage of the create-tree invocation and its requests

txvars == <<pc, signers, required, blockhash, txn, sig, requests, result, stdout, calls>>
sizevars == <<SIZES, call, returned>>
signervars == <<token, files, sargs, spc, source, locals, io, sresult, exit_code>>
vars == <<build, pc, signers, required, blockhash, txn, sig, requests, result, stdout,
          calls, SIZES, call, returned, token, files, sargs, spc, source, locals, io, sresult,
          exit_code, run>>

----------------------------------------------------------------------------
(* Bounds of the model *)

\* the number of calls of send_transaction one behaviour makes
MaxCalls == 2
\* the node hands out blockhashes 1..NumBlockhashes
NumBlockhashes == 2
\* the capacity functions are called with the depths 0..MaxDepth, and u8::MAX
MaxDepth == 32
\* and with the buffer sizes 2^0..2^MaxBufferLog, and 0 and u16::MAX
MaxBufferLog == 12
\* tree_size is called with the canopy depths 0..MaxCanopyDepth, and u8::MAX
\* (canopy_size alone is called with every u8)
MaxCanopyDepth == 64
\* the number of times one behaviour repeats a call of a capacity function
MaxRepeats == 2

----------------------------------------------------------------------------
(* Values *)

Builds == {"debug", "release"}

\* cfg!(debug_assertions)
debug_assertions == build = "debug"

\* the accounts that can appear as signers: the fee payer (the loaded key pair),
\* the new tree's key pair, and a key nobody passed
Keys == {"payer", "tree", "other"}

Ok(v) == [tag |-> "Ok", value |-> v]
Err(label, args) == [tag |-> "Err", label |-> label, args |-> args]

\* the unit value ()
Unit == <<>>

----------------------------------------------------------------------------
(* send_transaction *)

\* VersionedTransaction::try_new(message, signers): the message requires the
\* signatures of its payer and signer accounts; signing succeeds only when the
\* key pairs passed are exactly those
try_new(message, keypairs) ==
    IF keypairs = message.signer_keys
    THEN Ok([message |-> message, signature |-> <<message.signer_keys, message.blockhash>>])
    ELSE Err("Error signing transaction", <<>>)

\* Message::new_with_blockhash(instructions, payer, blockhash)
new_with_blockhash(signer_keys, hash) ==
    [signer_keys |-> signer_keys, blockhash |-> hash]

Request(method, arg) == [method |-> method, arg |-> arg]

\* no signer is being resolved
SignerIdle ==
    /\ token = <<>>
    /\ files = {}
    /\ sargs = <<>>
    /\ spc = "idle"
    /\ source = <<>>
    /\ locals = <<>>
    /\ io = <<>>
    /\ sresult = <<>>
    /\ exit_code = <<>>

\* no create-tree invocation is running
RunIdle == run = <<>>

TxInit ==
    /\ pc = "idle"
    /\ signers = {}
    /\ required = {}
    /\ blockhash = <<>>
    /\ txn = <<>>
    /\ sig = <<>>
    /\ requests = <<>>
    /\ result = <<>>
    /\ stdout = <<>>
    /\ calls = 0

\* a caller (create_tree, delegate_tree) calls send_transaction(instructions,
\* payer, signers); a later call is one an external retry policy makes
Call(req, keypairs) ==
    /\ pc \in {"idle", "returned"}
    /\ calls < MaxCalls
    /\ calls' = calls + 1
    /\ pc' = "fetch_latest"
    /\ required' = req
    /\ signers' = keypairs
    /\ blockhash' = <<>>
    /\ txn' = <<>>
    /\ sig' = <<>>
    /\ requests' = <<>>
    /\ result' = <<>>
    /\ UNCHANGED <<stdout, build, sizevars, signervars, run>>

\* rpc.get_latest_blockhash().await.context("Error getting latest blockhash")?
GetLatestBlockhash(answer) ==
    /\ pc = "fetch_latest"
    /\ requests' = Append(requests, Request("getLatestBlockhash", <<>>))
    /\ IF answer.tag = "Ok"
       THEN /\ blockhash' = Append(blockhash, answer.value)
            /\ pc' = "sign"
            /\ UNCHANGED result
       ELSE /\ result' = Err("Error getting latest blockhash", <<>>)
            /\ pc' = "returned"
            /\ UNCHANGED blockhash
    /\ UNCHANGED <<signers, required, txn, sig, stdout, calls, build, sizevars, signervars, run>>

\* BuildAndSign with the signers left unverified: the transaction goes on to
\* the send stage whatever key pairs were passed
BuildAndSign_Unverified ==
    /\ pc = "sign"
    /\ txn' = [message |-> new_with_blockhash(required, blockhash[1]),
               signature |-> <<signers, blockhash[1]>>]
    /\ pc' = "send"
    /\ UNCHANGED <<signers, required, blockhash, sig, requests, result, stdout, calls,
                   build, sizevars, signervars, run>>

\* VersionedTransaction::try_new(VersionedMessage::Legacy(
\*     Message::new_with_blockhash(instructions, payer, &hash)), signers)
\*     .context("Error signing transaction")?
BuildAndSign ==
    /\ pc = "sign"
    /\ LET signed == try_new(new_with_blockhash(required, blockhash[1]), signers)
       IN  IF signed.tag = "Ok"
           THEN /\ txn' = signed.value
                /\ pc' = "send"
                /\ UNCHANGED result
           ELSE /\ result' = signed
                /\ pc' = "returned"
                /\ UNCHANGED txn
    /\ UNCHANGED <<signers, required, blockhash, sig, requests, stdout, calls, build,
                   sizevars, signervars, run>>

\* SendTransaction with an internal retry: a rejected send is issued again
SendTransaction_Retry(accepted) ==
    /\ pc = "send"
    /\ requests' = Append(requests,
           Request("sendTransaction",
                   [txn |-> txn, skip_preflight |-> debug_assertions]))
    /\ IF accepted
       THEN /\ sig' = txn.signature
            /\ pc' = "fetch_recent"
       ELSE /\ Len(requests) < 4
            /\ UNCHANGED <<sig, pc>>
    /\ UNCHANGED <<signers, required, blockhash, txn, result, stdout, calls, build,
                   sizevars, signervars, run>>

\* rpc.send_transaction_with_config(&txn, RpcSendTransactionConfig {
\*     skip_preflight: cfg!(debug_assertions), .. }).await
\*     .context("Error sending transaction")?
\* the node answers with the transaction's signature, or rejects
SendTransaction(accepted) ==
    /\ pc = "send"
    /\ requests' = Append(requests,
           Request("sendTransaction",
                   [txn |-> txn, skip_preflight |-> debug_assertions]))
    /\ IF accepted
       THEN /\ sig' = txn.signature
            /\ pc' = "fetch_recent"
            /\ UNCHANGED result
       ELSE /\ result' = Err("Error sending transaction", <<>>)
            /\ pc' = "returned"
            /\ UNCHANGED sig
    /\ UNCHANGED <<signers, required, blockhash, txn, stdout, calls, build, sizevars, signervars, run>>

\* &rpc.get_latest_blockhash().await.context("Error getting recent blockhash")?
GetRecentBlockhash(answer) ==
    /\ pc = "fetch_recent"
    /\ requests' = Append(requests, Request("getLatestBlockhash", <<>>))
    /\ IF answer.tag = "Ok"
       THEN /\ blockhash' = Append(blockhash, answer.value)
            /\ pc' = "confirm"
            /\ UNCHANGED result
       ELSE /\ result' = Err("Error getting recent blockhash", <<>>)
            /\ pc' = "returned"
            /\ UNCHANGED blockhash
    /\ UNCHANGED <<signers, required, txn, sig, stdout, calls, build, sizevars, signervars, run>>

\* ConfirmTransaction with the success message left to the caller
ConfirmTransaction_Silent(confirmed) ==
    /\ pc = "confirm"
    /\ requests' = Append(requests,
           Request("confirmTransaction", [sig |-> sig, blockhash |-> blockhash[2]]))
    /\ result' = IF confirmed THEN Ok(Unit) ELSE Err("Error confirming transaction ", <<sig>>)
    /\ pc' = "returned"
    /\ UNCHANGED <<signers, required, blockhash, txn, sig, stdout, calls, build, sizevars, signervars, run>>

\* rpc.confirm_transaction_with_spinner(&sig, &hash, rpc.commitment()).await
\*     .context(format!("Error confirming transaction {sig}"))?;
\* println!("Success! Transaction signature: {sig}");
\* Ok(())
ConfirmTransaction(confirmed) ==
    /\ pc = "confirm"
    /\ requests' = Append(requests,
           Request("confirmTransaction", [sig |-> sig, blockhash |-> blockhash[2]]))
    /\ IF confirmed
       THEN /\ stdout' = Append(stdout,
                    [text |-> "Success! Transaction signature: ", args |-> <<sig>>])
            /\ result' = Ok(Unit)
       ELSE /\ result' = Err("Error confirming transaction ", <<sig>>)
            /\ UNCHANGED stdout
    /\ pc' = "returned"
    /\ UNCHANGED <<signers, required, blockhash, txn, sig, calls, build, sizevars, signervars, run>>

\* the answers of the node to getLatestBlockhash
BlockhashAnswers ==
    {Ok(h) : h \in 1..NumBlockhashes} \cup {Err("rpc error", <<>>)}

\* the signer sets of the instructions a caller passes: the payer always signs
RequiredSets == {s \in SUBSET Keys : "payer" \in s}

Init ==
    /\ build \in Builds
    /\ TxInit
    /\ SIZES = [initialized |-> FALSE, map |-> <<>>]
    /\ call = <<>>
    /\ returned = <<>>
    /\ SignerIdle
    /\ RunIdle

Next ==
    \/ \E req \in RequiredSets, keypairs \in SUBSET Keys : Call(req, keypairs)
    \/ \E answer \in BlockhashAnswers : GetLatestBlockhash(answer)
    \/ BuildAndSign
    \/ \E accepted \in BOOLEAN : SendTransaction(accepted)
    \/ \E answer \in BlockhashAnswers : GetRecentBlockhash(answer)
    \/ \E confirmed \in BOOLEAN : ConfirmTransaction(confirmed)

Spec == Init /\ [][Next]_vars

----------------------------------------------------------------------------
(* Unsigned integers wider than the checker's: a natural number is the      *)
(* sequence of its base-2^16 digits, least significant first, with no       *)
(* leading zero digit, so that equal numbers are equal sequences.           *)

DigitBits == 16
Base == 2 ^ DigitBits

RECURSIVE BigNorm(_)
BigNorm(a) ==
    IF a = <<>> THEN <<>>
    ELSE IF a[Len(a)] = 0 THEN BigNorm(SubSeq(a, 1, Len(a) - 1))
    ELSE a

RECURSIVE Big(_)
Big(n) == IF n = 0 THEN <<>> ELSE <<n % Base>> \o Big(n \div Base)

Digit(a, i) == IF i <= Len(a) THEN a[i] ELSE 0

Larger(m, n) == IF m >= n THEN m ELSE n
Smaller(m, n) == IF m <= n THEN m ELSE n

RECURSIVE BigAddFrom(_, _, _, _)
BigAddFrom(a, b, i, carry) ==
    IF i > Larger(Len(a), Len(b))
    THEN IF carry = 0 THEN <<>> ELSE <<carry>>
    ELSE LET t == Digit(a, i) + Digit(b, i) + carry
         IN  <<t % Base>> \o BigAddFrom(a, b, i + 1, t \div Base)

BigAdd(a, b) == BigNorm(BigAddFrom(a, b, 1, 0))

\* a - b for a >= b
RECURSIVE BigSubFrom(_, _, _, _)
BigSubFrom(a, b, i, borrow) ==
    IF i > Len(a) THEN <<>>
    ELSE LET t == Digit(a, i) - Digit(b, i) - borrow
         IN  IF t < 0
             THEN <<t + Base>> \o BigSubFrom(a, b, i + 1, 1)
             ELSE <<t>> \o BigSubFrom(a, b, i + 1, 0)

BigSub(a, b) == BigNorm(BigSubFrom(a, b, 1, 0))

\* a * k for a digit-sized k
RECURSIVE BigMulFrom(_, _, _, _)
BigMulFrom(a, k, i, carry) ==
    IF i > Len(a)
    THEN IF carry = 0 THEN <<>> ELSE <<carry>>
    ELSE LET t == a[i] * k + carry
         IN  <<t % Base>> \o BigMulFrom(a, k, i + 1, t \div Base)

BigMul(a, k) == BigNorm(BigMulFrom(a, k, 1, 0))

\* a * 2^n
BigShl(a, n) ==
    IF a = <<>> THEN <<>>
    ELSE [i \in 1..(n \div DigitBits) |-> 0] \o BigMul(a, 2 ^ (n % DigitBits))

RECURSIVE BigLessFrom(_, _, _)
BigLessFrom(a, b, i) ==
    IF i = 0 THEN FALSE
    ELSE IF a[i] # b[i] THEN a[i] < b[i]
    ELSE BigLessFrom(a, b, i - 1)

BigLess(a, b) ==
    IF Len(a) # Len(b) THEN Len(a) < Len(b) ELSE BigLessFrom(a, b, Len(a))

----------------------------------------------------------------------------
(* u64 arithmetic as the build compiles it: with overflow checks (the dev   *)
(* profile) an operation that overflows panics, without them (the release   *)
(* profile) it wraps modulo 2^64 and a shift amount is taken modulo 64.     *)

U64_BITS == 64
U8_MAX == 255
U16_MAX == 65535

overflow_checks == build = "debug"

Panic(message) == [tag |-> "Panic", label |-> message]

FitsU64(a) == Len(a) * DigitBits <= U64_BITS
WrapU64(a) == BigNorm(SubSeq(a, 1, Smaller(Len(a), U64_BITS \div DigitBits)))

\* a << n
u64_shl(a, n) ==
    IF n >= U64_BITS /\ overflow_checks
    THEN Panic("attempt to shift left with overflow")
    ELSE Ok(WrapU64(BigShl(a, n % U64_BITS)))

\* a - b
u64_sub(a, b) ==
    IF ~BigLess(a, b) THEN Ok(BigSub(a, b))
    ELSE IF overflow_checks THEN Panic("attempt to subtract with overflow")
    ELSE Ok(WrapU64(BigSub(BigAdd(a, BigShl(Big(1), U64_BITS)), b)))

\* a * k
u64_mul(a, k) ==
    IF FitsU64(BigMul(a, k)) THEN Ok(BigMul(a, k))
    ELSE IF overflow_checks THEN Panic("attempt to multiply with overflow")
    ELSE Ok(WrapU64(BigMul(a, k)))

\* a + b
u64_add(a, b) ==
    IF FitsU64(BigAdd(a, b)) THEN Ok(BigAdd(a, b))
    ELSE IF overflow_checks THEN Panic("attempt to add with overflow")
    ELSE Ok(WrapU64(BigAdd(a, b)))

\* u64::try_from(n: usize)
u64_try_from(n) ==
    IF FitsU64(Big(n)) THEN Ok(Big(n)) ELSE Err("out of range integral type conversion", <<>>)

----------------------------------------------------------------------------
(* tree_size, merkle_tree_get_size, canopy_size *)

CONCURRENT_MERKLE_TREE_HEADER_SIZE_V1 == 56
NODE_SIZE == 32

\* size_of::<ConcurrentMerkleTree<DEPTH, BUF>>(): three u64 counters, BUF change
\* logs (a root node, DEPTH path nodes, a u32 index and a u32 of padding each)
\* and the rightmost path (DEPTH proof nodes, a leaf node, a u32 index and a
\* u32 of padding)
size_of(depth, buf) ==
    LET Node == 32
        ChangeLog == Node + depth * Node + 4 + 4
        Path == depth * Node + Node + 4 + 4
    IN  3 * 8 + buf * ChangeLog + Path

\* the entries the table is built from, in the order of the source
TREE_SHAPES ==
    << <<3, 8>>, <<5, 8>>,
       <<14, 64>>, <<14, 256>>, <<14, 1024>>, <<14, 2048>>,
       <<15, 64>>, <<16, 64>>, <<17, 64>>, <<18, 64>>, <<19, 64>>,
       <<20, 64>>, <<20, 256>>, <<20, 1024>>, <<20, 2048>>,
       <<24, 64>>, <<24, 256>>, <<24, 512>>, <<24, 1024>>, <<24, 2048>>,
       <<26, 512>>, <<26, 1024>>, <<26, 2048>>,
       <<30, 512>>, <<30, 1024>>, <<30, 2048>> >>

\* a BTreeMap is a function on its key set
EmptyMap == <<>>

\* map.entry(depth).or_default().insert(buf, size), with the inner map of
\* another depth replaced
entry_insert_replacing(map, depth, buf, size) ==
    [d \in DOMAIN map \cup {depth} |->
        IF d = depth THEN [b \in {buf} |-> size] ELSE map[d]]

\* map.entry(depth).or_default().insert(buf, size)
entry_insert(map, depth, buf, size) ==
    LET inner == IF depth \in DOMAIN map THEN map[depth] ELSE EmptyMap
    IN  [d \in DOMAIN map \cup {depth} |->
            IF d = depth
            THEN [b \in DOMAIN inner \cup {buf} |-> IF b = buf THEN size ELSE inner[b]]
            ELSE map[d]]

\* the initialiser of SIZES: the for loop over the entries
RECURSIVE build_sizes(_, _)
build_sizes(map, i) ==
    IF i > Len(TREE_SHAPES) THEN map
    ELSE build_sizes(entry_insert(map, TREE_SHAPES[i][1], TREE_SHAPES[i][2],
                                  size_of(TREE_SHAPES[i][1], TREE_SHAPES[i][2])),
                     i + 1)

\* lazy_static: the first dereference runs the initialiser, once
deref(static) ==
    IF static.initialized THEN static
    ELSE [initialized |-> TRUE, map |-> build_sizes(EmptyMap, 1)]

Least(S) == CHOOSE x \in S : \A y \in S : x <= y
Greatest(S) == CHOOSE x \in S : \A y \in S : x >= y

\* a BTreeMap iterates its keys downwards
RECURSIVE keys_descending(_)
keys_descending(S) ==
    IF S = {} THEN <<>> ELSE <<Greatest(S)>> \o keys_descending(S \ {Greatest(S)})

\* BTreeMap::keys(): the keys in ascending order
RECURSIVE keys(_)
keys(S) == IF S = {} THEN <<>> ELSE <<Least(S)>> \o keys(S \ {Least(S)})

\* BTreeMap::range(bounds).next(): the first, that is the least, key in the range
range_next(S) == IF S = {} THEN <<>> ELSE <<Least(S)>>

\* .map(to_string).collect().join(sep)
join(items, sep) == [items |-> items, sep |-> sep]

\* merkle_tree_get_size of bubblegum.rs, on the initialised table
merkle_tree_get_size(map, depth, buffer_size) ==
    IF depth \notin DOMAIN map
    THEN LET depths == range_next({k \in DOMAIN map : k <= depth})
                       \o range_next({k \in DOMAIN map : k >= depth})
         IN  Err("Invalid tree depth {depth} - closest valid value(s) are {depths}",
                 [depth |-> depth, depths |-> join(depths, " and ")])
    ELSE IF buffer_size \notin DOMAIN map[depth]
    THEN Err("Invalid buffer size {buffer_size} - valid size(s) are {sizes}",
             [buffer_size |-> buffer_size,
              sizes |-> join(keys(DOMAIN map[depth]), ", ")])
    ELSE Ok(map[depth][buffer_size])

\* the arms of the match of merkle_tree_get_size of main.rs
MatchArms ==
    { <<3, 8>>, <<5, 8>>,
      <<14, 64>>, <<14, 256>>, <<14, 1024>>, <<14, 2048>>,
      <<15, 64>>, <<16, 64>>, <<17, 64>>, <<18, 64>>, <<19, 64>>,
      <<20, 64>>, <<20, 256>>, <<20, 1024>>, <<20, 2048>>,
      <<24, 64>>, <<24, 256>>, <<24, 512>>, <<24, 1024>>, <<24, 2048>>,
      <<26, 512>>, <<26, 1024>>, <<26, 2048>>,
      <<30, 512>>, <<30, 1024>>, <<30, 2048>> }

\* merkle_tree_get_size of main.rs
main_merkle_tree_get_size(depth, buffer_size) ==
    IF <<depth, buffer_size>> \in MatchArms
    THEN Ok(size_of(depth, buffer_size))
    ELSE Err("Invalid combination of max depth {depth} and max buffer size {buffer_size}",
             [depth |-> depth, buffer_size |-> buffer_size])

\* const fn canopy_size(canopy_depth: u8) -> u64
\*     { ((2 << canopy_depth) - 2) * NODE_SIZE }
canopy_size(canopy_depth) ==
    LET shifted == u64_shl(Big(2), canopy_depth)
    IN  IF shifted.tag # "Ok" THEN shifted
        ELSE LET less == u64_sub(shifted.value, Big(2))
             IN  IF less.tag # "Ok" THEN less
                 ELSE u64_mul(less.value, NODE_SIZE)

\* Ok(u64::try_from(HEADER + merkle_tree_get_size(depth, buffer_size)?)
\*        .context("Error converting Merkle tree size to 64-bit")?
\*    + canopy_size(canopy_depth))
\* with `size` what merkle_tree_get_size returned
tree_size_from(size, canopy_depth) ==
    IF size.tag # "Ok" THEN size
    ELSE LET wide == u64_try_from(CONCURRENT_MERKLE_TREE_HEADER_SIZE_V1 + size.value)
         IN  IF wide.tag # "Ok"
             THEN Err("Error converting Merkle tree size to 64-bit", <<>>)
             ELSE LET canopy == canopy_size(canopy_depth)
                  IN  IF canopy.tag # "Ok" THEN canopy
                      ELSE u64_add(wide.value, canopy.value)

\* the arguments the capacity functions are called with
Depths == 0..MaxDepth \cup {U8_MAX}
BufferSizes == {2 ^ k : k \in 0..MaxBufferLog} \cup {0, U16_MAX}
CanopyDepths == 0..U8_MAX
TreeCanopyDepths == 0..MaxCanopyDepth \cup {U8_MAX}

CallOf(fn, depth, buffer_size, canopy_depth) ==
    [fn |-> fn, depth |-> depth, buffer_size |-> buffer_size,
     canopy_depth |-> canopy_depth]

Invocations ==
    {CallOf(fn, d, b, 0) :
        fn \in {"merkle_tree_get_size", "main::merkle_tree_get_size"},
        d \in Depths, b \in BufferSizes}
    \cup {CallOf("canopy_size", 0, 0, c) : c \in CanopyDepths}
    \cup {CallOf("tree_size", d, b, c) :
            d \in Depths, b \in BufferSizes, c \in TreeCanopyDepths}

SizeInit ==
    /\ build \in Builds
    /\ TxInit
    /\ SIZES = [initialized |-> FALSE, map |-> EmptyMap]
    /\ call \in Invocations
    /\ returned = <<>>
    /\ SignerIdle
    /\ RunIdle

\* merkle_tree_get_size(depth, buffer_size) of bubblegum.rs
CallMerkleTreeGetSize ==
    /\ call.fn = "merkle_tree_get_size"
    /\ Len(returned) < MaxRepeats
    /\ SIZES' = deref(SIZES)
    /\ returned' = Append(returned,
           merkle_tree_get_size(SIZES'.map, call.depth, call.buffer_size))
    /\ UNCHANGED <<call, build, txvars, signervars, run>>

\* merkle_tree_get_size(depth, buffer_size) of main.rs
CallMainMerkleTreeGetSize ==
    /\ call.fn = "main::merkle_tree_get_size"
    /\ Len(returned) < MaxRepeats
    /\ returned' = Append(returned,
           main_merkle_tree_get_size(call.depth, call.buffer_size))
    /\ UNCHANGED <<SIZES, call, build, txvars, signervars, run>>

\* canopy_size(canopy_depth)
CallCanopySize ==
    /\ call.fn = "canopy_size"
    /\ Len(returned) < MaxRepeats
    /\ returned' = Append(returned, canopy_size(call.canopy_depth))
    /\ UNCHANGED <<SIZES, call, build, txvars, signervars, run>>

\* tree_size(depth, buffer_size, canopy_depth)
CallTreeSize ==
    /\ call.fn = "tree_size"
    /\ Len(returned) < MaxRepeats
    /\ SIZES' = deref(SIZES)
    /\ returned' = Append(returned,
           tree_size_from(merkle_tree_get_size(SIZES'.map, call.depth, call.buffer_size),
                          call.canopy_depth))
    /\ UNCHANGED <<call, build, txvars, signervars, run>>

SizeNext ==
    \/ CallMerkleTreeGetSize
    \/ CallMainMerkleTreeGetSize
    \/ CallCanopySize
    \/ CallTreeSize

SizeSpec == SizeInit /\ [][SizeNext]_vars

----------------------------------------------------------------------------
(* Claims about send_transaction *)

Methods(reqs) == [i \in 1..Len(reqs) |-> reqs[i].method]

\* the node requests of a call that runs to its end, in order
FullSequence ==
    <<"getLatestBlockhash", "sendTransaction", "getLatestBlockhash", "confirmTransaction">>

IsPrefix(s, t) == Len(s) <= Len(t) /\ \A i \in 1..Len(s) : s[i] = t[i]

Failed == pc = "returned" /\ result.tag = "Err"
Succeeded == pc = "returned" /\ result.tag = "Ok"

\* C1: a failure at any stage of send_transaction is returned with that
\* stage's own label and nothing of a later stage has been done: the first
\* blockhash fetch fails before anything is signed, a signing failure (the key
\* pairs passed are not the required signers) has issued no send request and
\* carries the signing label, a rejected send has fetched no second blockhash,
\* a failed second fetch has issued no confirm request, and a failed
\* confirmation carries the label with the signature.
C1_FailureHasStageLabel ==
    /\ Failed =>
         CASE result.label = "Error getting latest blockhash" ->
                /\ Methods(requests) = SubSeq(FullSequence, 1, 1)
                /\ blockhash = <<>> /\ txn = <<>> /\ sig = <<>>
           [] result.label = "Error signing transaction" ->
                /\ Methods(requests) = SubSeq(FullSequence, 1, 1)
                /\ Len(blockhash) = 1 /\ txn = <<>> /\ sig = <<>>
                /\ signers # required
           [] result.label = "Error sending transaction" ->
                /\ Methods(requests) = SubSeq(FullSequence, 1, 2)
                /\ Len(blockhash) = 1 /\ txn # <<>> /\ sig = <<>>
           [] result.label = "Error getting recent blockhash" ->
                /\ Methods(requests) = SubSeq(FullSequence, 1, 3)
                /\ Len(blockhash) = 1 /\ sig # <<>>
           [] result.label = "Error confirming transaction " ->
                /\ Methods(requests) = FullSequence
                /\ Len(blockhash) = 2 /\ result.args = <<sig>>
           [] OTHER -> FALSE
    /\ (signers # required /\ pc \notin {"idle", "fetch_latest", "sign"}) =>
         /\ Failed
         /\ result.label \in {"Error getting latest blockhash", "Error signing transaction"}
         /\ \A i \in 1..Len(requests) : requests[i].method # "sendTransaction"

\* C1 witness: a call whose signers miss a required signer has failed at signing
C1_Witness ==
    /\ Failed
    /\ result.label = "Error signing transaction"
    /\ "tree" \in required /\ "tree" \notin signers

\* C2: send_transaction is single-shot and sequential: the node requests of
\* one call are always a prefix of fetch blockhash, send, fetch blockhash,
\* confirm (so none is issued twice or re-issued after a failure, and the send
\* request at most once), a failed call ends with the request that failed, and
\* a call returns success only after all four, each exactly once.
C2_SingleShotSequential ==
    /\ IsPrefix(Methods(requests), FullSequence)
    /\ Cardinality({i \in 1..Len(requests) : requests[i].method = "sendTransaction"}) <= 1
    /\ Succeeded => Methods(requests) = FullSequence
    /\ pc = "returned" => Len(requests) >= 1

\* C2 witness: a call has returned success
C2_Witness ==
    /\ Succeeded
    /\ Len(requests) = 4

\* C3: whenever send_transaction fails after the send request has succeeded,
\* the error it returns embeds the signature of the submitted transaction.
C3_FailureAfterSendEmbedsSignature ==
    (Failed /\ sig # <<>>) => result.args = <<sig>>

\* C4 as stated: on success the call returns the signature to its caller and
\* prints no success message itself.
C4_ReturnsSignatureSilently ==
    Succeeded =>
        /\ result.value = <<sig>>
        /\ \A i \in 1..Len(stdout) : stdout[i].text # "Success! Transaction signature: "

\* C4 amended: on success the call returns the unit value and has itself
\* printed, as the last line of the output, the success message with the
\* signature of the transaction it sent and confirmed; a call prints at most
\* that one line, and prints nothing when it fails.
C4_PrintsSignatureReturnsUnit ==
    /\ Succeeded =>
        /\ result.value = Unit
        /\ stdout # <<>>
        /\ stdout[Len(stdout)] =
               [text |-> "Success! Transaction signature: ", args |-> <<txn.signature>>]
        /\ sig = txn.signature
        /\ requests[4].arg.sig = sig
    /\ Len(stdout) <= calls
    /\ (calls = 1 /\ ~Succeeded) => stdout = <<>>

\* C4 witness: a call has returned success after printing the signature
C4_Witness ==
    /\ Succeeded
    /\ Len(stdout) = 1
    /\ stdout[1].args = <<sig>>

----------------------------------------------------------------------------
(* Claims about the capacity functions *)

\* the 26 pairs of the table, and its depths
ValidPairs == MatchArms
ValidDepths == {p[1] : p \in ValidPairs}
ValidBufferSizes(depth) == {p[2] : p \in {q \in ValidPairs : q[1] = depth}}

Called(fn) == call.fn = fn /\ returned # <<>>

StrictlyAscending(s) == \A i \in 1..(Len(s) - 1) : s[i] < s[i + 1]

\* the pairs a table holds
PairsOf(map) == UNION {{<<d, b>> : b \in DOMAIN map[d]} : d \in DOMAIN map}

\* C5: merkle_tree_get_size(depth, buffer_size), in bubblegum.rs and in
\* main.rs, succeeds if and only if (depth, buffer_size) is one of the 26
\* pairs of the table and then returns the size stored for exactly that pair;
\* a repeated call returns the same result, and the table, once built, holds
\* the 26 pairs with their sizes after every call.
C5_LookupExactAndStable ==
    /\ Cardinality(ValidPairs) = 26
    /\ \A fn \in {"merkle_tree_get_size", "main::merkle_tree_get_size"} :
         Called(fn) =>
           \A i \in 1..Len(returned) :
             /\ returned[i].tag = "Ok" <=> <<call.depth, call.buffer_size>> \in ValidPairs
             /\ returned[i].tag = "Ok" =>
                  returned[i].value = size_of(call.depth, call.buffer_size)
             /\ returned[i] = returned[1]
    /\ SIZES.initialized =>
         /\ PairsOf(SIZES.map) = ValidPairs
         /\ \A p \in ValidPairs : SIZES.map[p[1]][p[2]] = size_of(p[1], p[2])
    /\ Called("main::merkle_tree_get_size") => ~SIZES.initialized

\* C5 witness: the lookup of (14, 64) was made twice and returned its size twice
C5_Witness ==
    /\ call.fn = "merkle_tree_get_size"
    /\ call.depth = 14 /\ call.buffer_size = 64
    /\ Len(returned) = 2
    /\ returned[2] = Ok(31744)

\* the nearest valid depths of a depth that is no key
Predecessor(depth) ==
    LET below == {k \in ValidDepths : k < depth}
    IN  IF below = {} THEN <<>> ELSE <<Greatest(below)>>
Successor(depth) ==
    LET above == {k \in ValidDepths : k > depth}
    IN  IF above = {} THEN <<>> ELSE <<Least(above)>>

\* C6: when the requested depth is not a key of the table, the failure
\* message names exactly the nearest valid depths: the largest valid depth
\* below the request and the smallest valid depth above it, whichever exist,
\* and no other depth.
C6_NearestDepthsReported ==
    (Called("merkle_tree_get_size") /\ call.depth \notin ValidDepths) =>
        /\ returned[1].tag = "Err"
        /\ returned[1].args.depths.items =
               Predecessor(call.depth) \o Successor(call.depth)

\* C7: when the requested depth is a key of the table and the buffer size is
\* not valid for it, the lookup fails and its message lists, in ascending
\* order, exactly the buffer sizes valid for that depth; tree_size returns the
\* same failure.
C7_ValidBufferSizesListed ==
    \A fn \in {"merkle_tree_get_size", "tree_size"} :
      (/\ Called(fn)
       /\ call.depth \in ValidDepths
       /\ <<call.depth, call.buffer_size>> \notin ValidPairs) =>
          \A i \in 1..Len(returned) :
            /\ returned[i].tag = "Err"
            /\ returned[i].label =
                   "Invalid buffer size {buffer_size} - valid size(s) are {sizes}"
            /\ returned[i].args.buffer_size = call.buffer_size
            /\ LET items == returned[i].args.sizes.items
               IN  /\ StrictlyAscending(items)
                   /\ {items[k] : k \in 1..Len(items)} = ValidBufferSizes(call.depth)

\* C7 witness: depth 14 with the buffer size 8 was refused with the four
\* buffer sizes of depth 14
C7_Witness ==
    /\ Called("merkle_tree_get_size")
    /\ call.depth = 14 /\ call.buffer_size = 8
    /\ returned[1].tag = "Err"
    /\ returned[1].args.sizes.items = <<64, 256, 1024, 2048>>

\* (2^(d+1) - 2) * 32 and the total size, as natural numbers
ExactCanopySize(d) == BigMul(BigSub(BigShl(Big(1), d + 1), Big(2)), 32)
ExactTreeSize(depth, buffer_size, canopy_depth) ==
    BigAdd(Big(56 + size_of(depth, buffer_size)), ExactCanopySize(canopy_depth))

\* C8: for every valid (depth, buffer_size) and every canopy_depth, tree_size
\* returns header_size + structure_size(depth, buffer_size)
\* + (2^(canopy_depth+1) - 2) * 32, so canopy_depth 0 gives header + structure
\* and canopy_depth 1 gives 64 more.
C8_TreeSizeIsExactSum ==
    (Called("tree_size") /\ <<call.depth, call.buffer_size>> \in ValidPairs) =>
        /\ returned[1] =
               Ok(ExactTreeSize(call.depth, call.buffer_size, call.canopy_depth))
        /\ call.canopy_depth = 0 =>
               returned[1] = Ok(Big(56 + size_of(call.depth, call.buffer_size)))
        /\ call.canopy_depth = 1 =>
               returned[1] = Ok(Big(56 + size_of(call.depth, call.buffer_size) + 64))

\* C9: canopy_size(0) = 0, and canopy_size(d) < canopy_size(d + 1) for every
\* canopy depth d in 0..254, computed in u64 as the code does.
C9_CanopySizeStrictlyIncreasing ==
    Called("canopy_size") =>
        /\ call.canopy_depth = 0 => returned[1] = Ok(Big(0))
        /\ call.canopy_depth < U8_MAX =>
               LET next == canopy_size(call.canopy_depth + 1)
               IN  /\ returned[1].tag = "Ok"
                   /\ next.tag = "Ok"
                   /\ BigLess(returned[1].value, next.value)

\* C10: tree_size never crashes and never returns a wrapped value: every
\* outcome is the exact total or an error value, and a total that does not
\* fit in 64 bits is an error value.
C10_TreeSizeOverflowReported ==
    Called("tree_size") =>
        /\ returned[1].tag \in {"Ok", "Err"}
        /\ returned[1].tag = "Ok" =>
               returned[1].value =
                   ExactTreeSize(call.depth, call.buffer_size, call.canopy_depth)
        /\ (/\ <<call.depth, call.buffer_size>> \in ValidPairs
            /\ ~FitsU64(ExactTreeSize(call.depth, call.buffer_size, call.canopy_depth)))
               => returned[1].tag = "Err"

----------------------------------------------------------------------------
(* parse_signer_source *)

\* a String whose letters matter is a sequence of one-character strings
UpperCase == <<"A", "B", "C", "D", "E", "F", "G", "H", "I", "J", "K", "L", "M",
               "N", "O", "P", "Q", "R", "S", "T", "U", "V", "W", "X", "Y", "Z">>
LowerCase == <<"a", "b", "c", "d", "e", "f", "g", "h", "i", "j", "k", "l", "m",
               "n", "o", "p", "q", "r", "s", "t", "u", "v", "w", "x", "y", "z">>

\* char::to_ascii_lowercase
char_to_ascii_lowercase(c) ==
    IF \E i \in DOMAIN UpperCase : UpperCase[i] = c
    THEN LowerCase[CHOOSE i \in DOMAIN UpperCase : UpperCase[i] = c]
    ELSE c

\* a mutation of to_ascii_lowercase: the scheme is compared as it was typed
to_ascii_lowercase_identity(str) == str

\* str::to_ascii_lowercase
to_ascii_lowercase(str) == [i \in DOMAIN str |-> char_to_ascii_lowercase(str[i])]

SIGNER_SOURCE_PROMPT == <<"p", "r", "o", "m", "p", "t">>
SIGNER_SOURCE_FILEPATH == <<"f", "i", "l", "e">>
SIGNER_SOURCE_USB == <<"u", "s", "b">>
SIGNER_SOURCE_STDIN == <<"s", "t", "d", "i", "n">>
SIGNER_SOURCE_PUBKEY == <<"p", "u", "b", "k", "e", "y">>
STDOUT_OUTFILE_TOKEN == "-"
ASK_KEYWORD == "ASK"

\* Option<T>
None == <<>>
Some(v) == <<v>>

\* SignerSourceKind: the variant and its field ("" for a variant without one)
Kind(variant, field) == [variant |-> variant, field |-> field]

\* SignerSource::new and SignerSource::new_legacy
SignerSource_new(kind) == [kind |-> kind, derivation_path |-> None, legacy |-> FALSE]
SignerSource_new_legacy(kind) == [kind |-> kind, derivation_path |-> None, legacy |-> TRUE]

\* the query values the derivation path parsers accept
ValidKeyStr == {"0/0"}
ValidAbsolutePathStr == {"m/44/501/0/0"}

\* DerivationPath::from_uri(uri, include_full_path): no query is no derivation
\* path; "key" and (where allowed) "full-path" are parsed; everything else is
\* an invalid derivation path
DerivationPath_from_uri(uri, include_full_path) ==
    IF uri.query = None THEN Ok(None)
    ELSE LET pair == uri.query[1]
         IN  IF pair.key = "key" /\ pair.value \in ValidKeyStr
                 THEN Ok(Some(pair.value))
             ELSE IF include_full_path /\ pair.key = "full-path"
                                      /\ pair.value \in ValidAbsolutePathStr
                 THEN Ok(Some(pair.value))
             ELSE Err("DerivationPathError", <<>>)

DerivationPath_from_uri_any_query(uri) == DerivationPath_from_uri(uri, TRUE)
DerivationPath_from_uri_key_query(uri) == DerivationPath_from_uri(uri, FALSE)

\* the hardware wallet manufacturers the locator parser knows
Manufacturers == {"ledger"}

\* RemoteWalletLocator::new_from_uri: the host names the manufacturer
RemoteWalletLocator_new_from_uri(uri) ==
    IF uri.host # None /\ uri.host[1] \in Manufacturers
    THEN Ok(uri.host[1])
    ELSE Err("RemoteWalletLocatorError", <<>>)

\* uriparse::URIReference::try_from(source) of each token: None when the text
\* is no URI reference; scheme None when it has no scheme
Uri(scheme, host, path, query) ==
    Some([scheme |-> scheme, host |-> host, path |-> path, query |-> query])
Query(key, value) == Some([key |-> key, value |-> value])

\* a token: its text, how it parses as a URI reference, whether
\* Pubkey::from_str accepts it
Token(text, uri, pubkey) == [text |-> text, uri |-> uri, pubkey |-> pubkey]

SIGNER_TOKENS == {
    Token("prompt:", Uri(Some(<<"p","r","o","m","p","t">>), None, "", None), FALSE),
    Token("PROMPT:", Uri(Some(<<"P","R","O","M","P","T">>), None, "", None), FALSE),
    Token("Prompt://?key=0/0",
          Uri(Some(<<"P","r","o","m","p","t">>), Some(""), "", Query("key", "0/0")), FALSE),
    Token("prompt://?full-path=m/44/501/0/0",
          Uri(Some(<<"p","r","o","m","p","t">>), Some(""), "",
              Query("full-path", "m/44/501/0/0")), FALSE),
    Token("prompt://?key=x",
          Uri(Some(<<"p","r","o","m","p","t">>), Some(""), "", Query("key", "x")), FALSE),
    Token("pRoMpT://?bad=0",
          Uri(Some(<<"p","R","o","M","p","T">>), Some(""), "", Query("bad", "0")), FALSE),
    Token("file:id.json", Uri(Some(<<"f","i","l","e">>), None, "id.json", None), FALSE),
    Token("FILE:/keys/id.json",
          Uri(Some(<<"F","I","L","E">>), None, "/keys/id.json", None), FALSE),
    Token("File:?key=x", Uri(Some(<<"F","i","l","e">>), None, "", Query("key", "x")), FALSE),
    Token("usb://ledger", Uri(Some(<<"u","s","b">>), Some("ledger"), "", None), FALSE),
    Token("USB://ledger?key=0/0",
          Uri(Some(<<"U","S","B">>), Some("ledger"), "", Query("key", "0/0")), FALSE),
    Token("Usb://ledger?full-path=m/44/501/0/0",
          Uri(Some(<<"U","s","b">>), Some("ledger"), "",
              Query("full-path", "m/44/501/0/0")), FALSE),
    Token("usb://ledger?key=x",
          Uri(Some(<<"u","s","b">>), Some("ledger"), "", Query("key", "x")), FALSE),
    Token("usb://bogus", Uri(Some(<<"u","s","b">>), Some("bogus"), "", None), FALSE),
    Token("usb:ledger", Uri(Some(<<"u","s","b">>), None, "ledger", None), FALSE),
    Token("stdin:", Uri(Some(<<"s","t","d","i","n">>), None, "", None), FALSE),
    Token("STDIN://", Uri(Some(<<"S","T","D","I","N">>), Some(""), "", None), FALSE),
    Token("pubkey:key1", Uri(Some(<<"p","u","b","k","e","y">>), None, "key1", None), FALSE),
    Token("http://ledger", Uri(Some(<<"h","t","t","p">>), Some("ledger"), "", None), FALSE),
    Token("c:/id.json", Uri(Some(<<"c">>), None, "/id.json", None), FALSE),
    Token("prompts:", Uri(Some(<<"p","r","o","m","p","t","s">>), None, "", None), FALSE),
    Token("-", Uri(None, None, "-", None), FALSE),
    Token("ASK", Uri(None, None, "ASK", None), FALSE),
    Token("ask", Uri(None, None, "ask", None), FALSE),
    Token("key1", Uri(None, None, "key1", None), TRUE),
    Token("id.json", Uri(None, None, "id.json", None), FALSE),
    Token("/keys/id.json", Uri(None, None, "/keys/id.json", None), FALSE),
    Token("id.json?key=0/0", Uri(None, None, "id.json", Query("key", "0/0")), FALSE),
    Token("//ledger", Uri(None, Some("ledger"), "", None), FALSE),
    Token("my id.json", None, FALSE),
    Token("prompt :", None, FALSE)
}

\* the file systems the tool can run on: the set of the paths that exist
Paths == {t.text : t \in {t \in SIGNER_TOKENS : t.uri = None \/ t.uri[1].scheme = None}}
FileSystems == {{}, {"id.json", "key1"}, Paths}

\* std::fs::metadata(path).is_ok()
metadata_ok(fs, path) == path \in fs

\* signer.rs 136-162: the token has a scheme
parse_with_scheme(uri) ==
    LET scheme == to_ascii_lowercase(uri.scheme[1])
    IN  IF scheme = SIGNER_SOURCE_PROMPT THEN
            LET derivation_path == DerivationPath_from_uri_any_query(uri)
            IN  IF derivation_path.tag = "Err" THEN derivation_path
                ELSE Ok([kind |-> Kind("Prompt", ""),
                         derivation_path |-> derivation_path.value,
                         legacy |-> FALSE])
        ELSE IF scheme = SIGNER_SOURCE_FILEPATH THEN
            Ok(SignerSource_new(Kind("Filepath", uri.path)))
        ELSE IF scheme = SIGNER_SOURCE_USB THEN
            LET locator == RemoteWalletLocator_new_from_uri(uri)
                derivation_path == DerivationPath_from_uri_key_query(uri)
            IN  IF locator.tag = "Err" THEN locator
                ELSE IF derivation_path.tag = "Err" THEN derivation_path
                ELSE Ok([kind |-> Kind("Usb", locator.value),
                         derivation_path |-> derivation_path.value,
                         legacy |-> FALSE])
        ELSE IF scheme = SIGNER_SOURCE_STDIN THEN
            Ok(SignerSource_new(Kind("Stdin", "")))
        ELSE Err("UnrecognizedSource", <<>>)

\* signer.rs 163-174: the token has no scheme
parse_no_scheme(tok, fs) ==
    IF tok.text = STDOUT_OUTFILE_TOKEN THEN Ok(SignerSource_new(Kind("Stdin", "")))
    ELSE IF tok.text = ASK_KEYWORD THEN Ok(SignerSource_new_legacy(Kind("Prompt", "")))
    ELSE IF tok.pubkey THEN Ok(SignerSource_new(Kind("Pubkey", tok.text)))
    ELSE IF metadata_ok(fs, tok.text) THEN Ok(SignerSource_new(Kind("Filepath", tok.text)))
    ELSE Err("IoError", <<>>)

\* parse_signer_source(source), on a non-Windows target
parse_signer_source(tok, fs) ==
    IF tok.uri = None THEN Err("UnrecognizedSource", <<>>)
    ELSE IF tok.uri[1].scheme # None
         THEN parse_with_scheme(tok.uri[1])
         ELSE parse_no_scheme(tok, fs)

\* the parser alone: one call of parse_signer_source on any token
ParseInit ==
    /\ build \in Builds
    /\ TxInit
    /\ SIZES = [initialized |-> FALSE, map |-> <<>>]
    /\ call = <<>>
    /\ returned = <<>>
    /\ RunIdle
    /\ token \in SIGNER_TOKENS
    /\ files \in FileSystems
    /\ sargs = <<>>
    /\ spc = "parse"
    /\ source = <<>>
    /\ locals = <<>>
    /\ io = <<>>
    /\ sresult = <<>>
    /\ exit_code = <<>>

CallParseSignerSource ==
    /\ spc = "parse"
    /\ source' = parse_signer_source(token, files)
    /\ spc' = "parsed"
    /\ UNCHANGED <<token, files, sargs, locals, io, sresult, exit_code, build, txvars,
                   sizevars, run>>

ParseNext == CallParseSignerSource

ParseSpec == ParseInit /\ [][ParseNext]_vars

----------------------------------------------------------------------------
(* Properties of parse_signer_source *)

\* two words are the same up to the case of their letters
SameLetters(a, b) ==
    /\ Len(a) = Len(b)
    /\ \A i \in DOMAIN a :
           \/ a[i] = b[i]
           \/ \E j \in DOMAIN UpperCase : {a[i], b[i]} = {UpperCase[j], LowerCase[j]}

Parsed == spc = "parsed"
HasScheme == token.uri # None /\ token.uri[1].scheme # None
SchemeIs(word) == HasScheme /\ SameLetters(token.uri[1].scheme[1], word)

\* the dispatch of the schemes prompt, file, stdin and of every
\* scheme that is none of the four
SchemeDispatchExceptUsb ==
    /\ SchemeIs(SIGNER_SOURCE_PROMPT) =>
           LET derivation_path == DerivationPath_from_uri_any_query(token.uri[1])
           IN  IF derivation_path.tag = "Err"
               THEN source = Err("DerivationPathError", <<>>)
               ELSE source = Ok([kind |-> Kind("Prompt", ""),
                                 derivation_path |-> derivation_path.value,
                                 legacy |-> FALSE])
    /\ SchemeIs(SIGNER_SOURCE_FILEPATH) =>
           source = Ok([kind |-> Kind("Filepath", token.uri[1].path),
                        derivation_path |-> None,
                        legacy |-> FALSE])
    /\ SchemeIs(SIGNER_SOURCE_STDIN) =>
           source = Ok([kind |-> Kind("Stdin", ""), derivation_path |-> None,
                        legacy |-> FALSE])
    /\ (/\ HasScheme
        /\ ~SchemeIs(SIGNER_SOURCE_PROMPT)
        /\ ~SchemeIs(SIGNER_SOURCE_FILEPATH)
        /\ ~SchemeIs(SIGNER_SOURCE_USB)
        /\ ~SchemeIs(SIGNER_SOURCE_STDIN)) => source = Err("UnrecognizedSource", <<>>)

\* C11, as stated: a token with a scheme is dispatched on the lower-cased
\* scheme only: prompt yields a non-legacy Prompt with the derivation path of
\* the query (an error if it is malformed), file yields Filepath of the URI
\* path whatever the file system holds, usb yields Usb, stdin yields Stdin,
\* in any letter case; every other scheme yields UnrecognizedSource.
C11_SchemeDispatch ==
    Parsed =>
        /\ SchemeDispatchExceptUsb
        /\ SchemeIs(SIGNER_SOURCE_USB) =>
               source.tag = "Ok" /\ source.value.kind.variant = "Usb"

\* C11, amended: as above, but usb yields Usb (non-legacy, with the locator
\* and the derivation path of a key query) only when the locator parser accepts
\* the URI and the query is absent or a well-formed key query; otherwise the
\* call fails with the locator's error or, the locator accepted, with the
\* derivation path error.
C11_SchemeDispatchUsbMayFail ==
    Parsed =>
        /\ SchemeDispatchExceptUsb
        /\ SchemeIs(SIGNER_SOURCE_USB) =>
               LET locator == RemoteWalletLocator_new_from_uri(token.uri[1])
                   derivation_path == DerivationPath_from_uri_key_query(token.uri[1])
               IN  IF locator.tag = "Err"
                       THEN source = Err("RemoteWalletLocatorError", <<>>)
                   ELSE IF derivation_path.tag = "Err"
                       THEN source = Err("DerivationPathError", <<>>)
                   ELSE source = Ok([kind |-> Kind("Usb", locator.value),
                                     derivation_path |-> derivation_path.value,
                                     legacy |-> FALSE])

\* a usb token not typed in lower case was parsed to a Usb source
C11_Witness ==
    /\ Parsed
    /\ SchemeIs(SIGNER_SOURCE_USB)
    /\ token.uri[1].scheme[1] # SIGNER_SOURCE_USB
    /\ source.tag = "Ok"
    /\ source.value.kind.variant = "Usb"

\* C12: a token without a scheme is classified in this order: "-" yields
\* Stdin; "ASK" yields a legacy Prompt with no derivation path; a valid public
\* key yields Pubkey even if a file of that name exists; any other token
\* yields Filepath if and only if the path exists, and a parse error if not.
C12_NoSchemePriority ==
    (Parsed /\ ~HasScheme) =>
        IF token.text = "-"
            THEN source = Ok([kind |-> Kind("Stdin", ""), derivation_path |-> None,
                              legacy |-> FALSE])
        ELSE IF token.text = "ASK"
            THEN source = Ok([kind |-> Kind("Prompt", ""), derivation_path |-> None,
                              legacy |-> TRUE])
        ELSE IF token.pubkey
            THEN source = Ok([kind |-> Kind("Pubkey", token.text),
                              derivation_path |-> None, legacy |-> FALSE])
        ELSE IF token.text \in files
            THEN source = Ok([kind |-> Kind("Filepath", token.text),
                              derivation_path |-> None, legacy |-> FALSE])
        ELSE source.tag = "Err"

----------------------------------------------------------------------------
(* keypair_from_path and keypair_from_seed_phrase *)

\* the longest seed phrase typed, in characters
MaxPhraseLen == 4

Whitespace == {" ", "\t", "\n"}

\* str::trim
RECURSIVE trim_start(_)
trim_start(str) ==
    IF str # <<>> /\ Head(str) \in Whitespace THEN trim_start(Tail(str)) ELSE str
RECURSIVE trim_end(_)
trim_end(str) ==
    IF str # <<>> /\ str[Len(str)] \in Whitespace
    THEN trim_end(SubSeq(str, 1, Len(str) - 1))
    ELSE str
trim(str) == trim_end(trim_start(str))

\* str::split: the pieces between the separators, empty pieces included
RECURSIVE split_from(_, _, _)
split_from(str, seps, piece) ==
    IF str = <<>> THEN <<piece>>
    ELSE IF Head(str) \in seps
         THEN <<piece>> \o split_from(Tail(str), seps, <<>>)
         ELSE split_from(Tail(str), seps, Append(piece, Head(str)))
split(str, seps) == split_from(str, seps, <<>>)

\* str::split_whitespace: the non-empty pieces between runs of whitespace
split_whitespace(str) == SelectSeq(split(str, Whitespace), LAMBDA piece : piece # <<>>)

\* [&str]::join(" ")
RECURSIVE join_str(_, _)
join_str(pieces, sep) ==
    IF pieces = <<>> THEN <<>>
    ELSE IF Len(pieces) = 1 THEN pieces[1]
    ELSE pieces[1] \o sep \o join_str(Tail(pieces), sep)

\* sanitize_seed_phrase
sanitize_seed_phrase(seed_phrase) == join_str(split_whitespace(seed_phrase), <<" ">>)

\* str::to_lowercase, on ASCII text
to_lowercase(str) == [i \in DOMAIN str |-> char_to_ascii_lowercase(str[i])]

\* the languages tried, in the order of the array
LANGUAGES == <<"English", "ChineseSimplified", "ChineseTraditional", "Japanese",
               "Spanish", "Korean", "French", "Italian">>

\* the word lists: some words belong to several of them
WordList(language) ==
    CASE language = "English" -> {<<"x">>}
      [] language = "ChineseSimplified" -> {<<"z">>}
      [] language = "ChineseTraditional" -> {<<"z">>}
      [] language = "French" -> {<<"x">>, <<"z">>}
      [] language = "Italian" -> {<<"x">>, <<"z">>}
      [] OTHER -> {}

\* Mnemonic::from_phrase(phrase, language): the phrase is split at every
\* single space and each piece has to be a word of the language
Mnemonic_from_phrase(phrase, language) ==
    LET words == split(phrase, {" "})
    IN  IF phrase # <<>> /\ \A i \in DOMAIN words : words[i] \in WordList(language)
        THEN Ok([phrase |-> phrase, language |-> language])
        ELSE Err("invalid mnemonic", <<>>)

\* a mutation of parse_language_fn: the last language that accepts the phrase
parse_language_last(sanitized) ==
    LET accepting == {i \in DOMAIN LANGUAGES :
                          Mnemonic_from_phrase(sanitized, LANGUAGES[i]).tag = "Ok"}
    IN  IF accepting = {} THEN Err("Can't get mnemonic from seed phrases", <<>>)
        ELSE Mnemonic_from_phrase(sanitized, LANGUAGES[Greatest(accepting)])

\* parse_language_fn: the loop returns at the first language that accepts
RECURSIVE parse_language_from(_, _)
parse_language_from(sanitized, i) ==
    IF i > Len(LANGUAGES) THEN Err("Can't get mnemonic from seed phrases", <<>>)
    ELSE LET mnemonic == Mnemonic_from_phrase(sanitized, LANGUAGES[i])
         IN  IF mnemonic.tag = "Ok" THEN mnemonic
             ELSE parse_language_from(sanitized, i + 1)
parse_language_fn(sanitized) == parse_language_from(sanitized, 1)

\* generate_seed_from_seed_phrase_and_passphrase: the key stretching of the
\* phrase salted with the passphrase; different inputs give different seeds
generate_seed_from_seed_phrase_and_passphrase(seed_phrase, passphrase) ==
    [phrase |-> seed_phrase, passphrase |-> passphrase]

\* Seed::new(mnemonic, passphrase): the same stretching of the mnemonic's phrase
Seed_new(mnemonic, passphrase) ==
    generate_seed_from_seed_phrase_and_passphrase(mnemonic.phrase, passphrase)

\* keypair_from_seed: the key is the head of the seed
keypair_from_seed(seed) == [seed |-> seed, derivation |-> "none"]

\* keypair_from_seed_phrase_and_passphrase
keypair_from_seed_phrase_and_passphrase(seed_phrase, passphrase) ==
    keypair_from_seed(generate_seed_from_seed_phrase_and_passphrase(seed_phrase, passphrase))

\* keypair_from_seed_and_derivation_path: derivation_path.unwrap_or_default()
keypair_from_seed_and_derivation_path(seed, derivation_path) ==
    [seed |-> seed,
     derivation |-> IF derivation_path = None THEN "default" ELSE derivation_path[1]]

\* SignerArgs
SignerArgs ==
    [skip_seed_phrase_validation : BOOLEAN, confirm_pubkey : BOOLEAN]

\* what the operator can type
PhraseAlphabet == {"x", "z", "X", " ", "\t"}
Phrases == UNION {[1..n -> PhraseAlphabet] : n \in 0..MaxPhraseLen}
Passphrases == {"", "p", "q"}
Answers == {<<>>, <<"\n">>, <<"y", "\n">>, <<"Y", "\n">>, <<" ", "y", " ", "\n">>,
            <<"y", "e", "s", "\n">>, <<"n", "\n">>, <<"y", " ", "y", "\n">>}

\* an I/O operation returns what was read or fails
IoError == Err("IoError", <<>>)
Reads(values) == {Ok(v) : v \in values} \cup {IoError}

\* the key pair a key file or the standard input holds
StoredKeypair == [seed |-> [phrase |-> <<>>, passphrase |-> "stored"], derivation |-> "none"]

\* the locals of keypair_from_seed_phrase
NoLocals ==
    [seed_phrase |-> <<>>, mnemonic |-> None, passphrase |-> "", confirmed |-> None,
     keypair |-> None, input |-> None]

\* the tokens keypair_from_path is called with: one of each outcome of the parser
SIGNER_PATHS ==
    {t \in SIGNER_TOKENS :
         t.text \in {"prompt:", "Prompt://?key=0/0", "prompt://?key=x", "ASK", "ask",
                     "file:id.json", "FILE:/keys/id.json", "id.json", "/keys/id.json",
                     "stdin:", "-", "usb://ledger", "usb://bogus", "key1",
                     "http://ledger", "my id.json"}}

SignerInit ==
    /\ build \in Builds
    /\ TxInit
    /\ SIZES = [initialized |-> FALSE, map |-> <<>>]
    /\ call = <<>>
    /\ returned = <<>>
    /\ RunIdle
    /\ token \in SIGNER_PATHS
    /\ files = {"id.json", "key1"}
    /\ sargs \in SignerArgs
    /\ spc = "start"
    /\ source = <<>>
    /\ locals = NoLocals
    /\ io = <<>>
    /\ sresult = <<>>
    /\ exit_code = <<>>

\* keypair_from_seed_phrase returns, or stops at the confirmation question
\* (signer.rs 280-292)
ConfirmOrReturn(keypair, vals, done) ==
    /\ locals' = [vals EXCEPT !.keypair = Some(keypair)]
    /\ IF sargs.confirm_pubkey
       THEN /\ io' = done \o <<"print Recovered pubkey">>
            /\ spc' = "confirm_pubkey"
            /\ sresult' = sresult
       ELSE /\ io' = done
            /\ spc' = "returned"
            /\ sresult' = Ok(keypair)

\* the passphrase is known: derive the seed and the key pair
\* (signer.rs 244-250 when validation is skipped, 273-278 when not)
DeriveKeypair(passphrase, vals, done) ==
    LET legacy == source.value.legacy
        derivation_path == source.value.derivation_path
        keypair ==
            IF sargs.skip_seed_phrase_validation
            THEN IF legacy
                 THEN keypair_from_seed_phrase_and_passphrase(locals.seed_phrase, passphrase)
                 ELSE keypair_from_seed_and_derivation_path(
                          generate_seed_from_seed_phrase_and_passphrase(
                              locals.seed_phrase, passphrase),
                          derivation_path)
            ELSE IF legacy
                 THEN keypair_from_seed(Seed_new(locals.mnemonic[1], passphrase))
                 ELSE keypair_from_seed_and_derivation_path(
                          Seed_new(locals.mnemonic[1], passphrase), derivation_path)
    IN  ConfirmOrReturn(keypair, vals, done \o <<"derive">>)

\* keypair_from_path returns an error
ReturnErr(err, done) ==
    /\ sresult' = err
    /\ spc' = "returned"
    /\ io' = done

\* a mutation of keypair_from_path: a source that holds no key pair falls
\* back to the seed phrase prompt
KeypairFromPath_Fallback ==
    /\ spc = "start"
    /\ LET parsed == parse_signer_source(token, files)
       IN  /\ source' = parsed
           /\ IF parsed.tag = "Err" THEN ReturnErr(parsed, io)
              ELSE /\ spc' = CASE parsed.value.kind.variant = "Filepath" -> "read_keypair_file"
                               [] parsed.value.kind.variant = "Stdin" -> "read_keypair"
                               [] OTHER -> "seed_phrase"
                   /\ UNCHANGED <<io, sresult>>
    /\ UNCHANGED <<token, files, sargs, locals, exit_code, build, txvars, sizevars, run>>

\* keypair_from_path, up to its first I/O operation (signer.rs 195-227)
KeypairFromPath ==
    /\ spc = "start"
    /\ LET parsed == parse_signer_source(token, files)
       IN  /\ source' = parsed
           /\ IF parsed.tag = "Err" THEN ReturnErr(parsed, io)
              ELSE LET kind == parsed.value.kind
                   IN  IF kind.variant = "Prompt"
                           THEN spc' = "seed_phrase" /\ UNCHANGED <<io, sresult>>
                       ELSE IF kind.variant = "Filepath"
                           THEN spc' = "read_keypair_file" /\ UNCHANGED <<io, sresult>>
                       ELSE IF kind.variant = "Stdin"
                           THEN spc' = "read_keypair" /\ UNCHANGED <<io, sresult>>
                       ELSE ReturnErr(Err("does not support Keypair output",
                                          <<kind.variant>>), io)
    /\ UNCHANGED <<token, files, sargs, locals, exit_code, build, txvars, sizevars, run>>

\* read_keypair_file(&path) (signer.rs 206-216)
ReadKeypairFile(read) ==
    /\ spc = "read_keypair_file"
    /\ spc' = "returned"
    /\ io' = Append(io, "read_keypair_file")
    /\ sresult' = IF read.tag = "Err"
                  THEN Err("could not read keypair file", <<source.value.kind.field>>)
                  ELSE read
    /\ UNCHANGED <<token, files, sargs, source, locals, exit_code, build, txvars,
                   sizevars, run>>

\* read_keypair(&mut stdin) (signer.rs 217-220)
ReadKeypairStdin(read) ==
    /\ spc = "read_keypair"
    /\ spc' = "returned"
    /\ io' = Append(io, "read_keypair stdin")
    /\ sresult' = read
    /\ UNCHANGED <<token, files, sargs, source, locals, exit_code, build, txvars,
                   sizevars, run>>

\* the seed phrase prompt and what follows it up to the passphrase prompt
\* (signer.rs 236-242, 252-272); the operator types one of the phrases given
PromptSeedPhrase(typed) ==
    /\ spc = "seed_phrase"
    /\ \E read \in Reads(typed) :
       LET done == Append(io, "prompt_password seed phrase")
       IN  IF read.tag = "Err" THEN ReturnErr(read, done) /\ UNCHANGED locals
           ELSE LET seed_phrase == trim(read.value)
                IN  IF sargs.skip_seed_phrase_validation
                    THEN /\ locals' = [locals EXCEPT !.seed_phrase = seed_phrase]
                         /\ spc' = "passphrase"
                         /\ io' = done
                         /\ UNCHANGED sresult
                    ELSE LET sanitized == sanitize_seed_phrase(seed_phrase)
                             mnemonic == parse_language_fn(sanitized)
                         IN  IF mnemonic.tag = "Err"
                             THEN /\ ReturnErr(mnemonic, done)
                                  /\ locals' = [locals EXCEPT !.seed_phrase = seed_phrase]
                             ELSE /\ locals' = [locals EXCEPT
                                                   !.seed_phrase = seed_phrase,
                                                   !.mnemonic = Some(mnemonic.value)]
                                  /\ spc' = "passphrase"
                                  /\ io' = done
                                  /\ UNCHANGED sresult
    /\ UNCHANGED <<token, files, sargs, source, exit_code, build, txvars, sizevars, run>>

\* prompt_passphrase: the first entry (signer.rs 180-181, 187)
PromptPassphrase(read) ==
    /\ spc = "passphrase"
    /\ LET done == Append(io, "prompt_password passphrase")
       IN  IF read.tag = "Err" THEN ReturnErr(read, done) /\ UNCHANGED locals
           ELSE IF read.value # ""
                THEN /\ locals' = [locals EXCEPT !.passphrase = read.value]
                     /\ spc' = "confirm_passphrase"
                     /\ io' = done
                     /\ UNCHANGED sresult
                ELSE DeriveKeypair(read.value, locals, done)
    /\ UNCHANGED <<token, files, sargs, source, exit_code, build, txvars, sizevars, run>>

\* a mutation of the second entry: the first entry is used whatever the second
PromptPassphraseAgain_Unchecked(read) ==
    /\ spc = "confirm_passphrase"
    /\ LET done == Append(io, "prompt_password passphrase again")
       IN  IF read.tag = "Err" THEN ReturnErr(read, done) /\ UNCHANGED locals
           ELSE DeriveKeypair(locals.passphrase,
                              [locals EXCEPT !.confirmed = Some(read.value)], done)
    /\ UNCHANGED <<token, files, sargs, source, exit_code, build, txvars, sizevars, run>>

\* prompt_passphrase: the second entry (signer.rs 182-186)
PromptPassphraseAgain(read) ==
    /\ spc = "confirm_passphrase"
    /\ LET done == Append(io, "prompt_password passphrase again")
       IN  IF read.tag = "Err" THEN ReturnErr(read, done) /\ UNCHANGED locals
           ELSE IF read.value # locals.passphrase
                THEN /\ ReturnErr(Err("Passphrases did not match", <<>>), done)
                     /\ locals' = [locals EXCEPT !.confirmed = Some(read.value)]
                ELSE DeriveKeypair(locals.passphrase,
                                   [locals EXCEPT !.confirmed = Some(read.value)], done)
    /\ UNCHANGED <<token, files, sargs, source, exit_code, build, txvars, sizevars, run>>

\* a mutation of the confirmation: a declined key pair is an error value
ReadConfirmation_ReturnsError(read) ==
    /\ spc = "confirm_pubkey"
    /\ LET done == Append(io, "read_line stdin")
       IN  IF read.tag = "Err"
           THEN /\ sresult' = Panic("Unexpected input")
                /\ spc' = "returned"
                /\ io' = done
                /\ UNCHANGED locals
           ELSE /\ locals' = [locals EXCEPT !.input = Some(read.value)]
                /\ IF trim(to_lowercase(read.value)) # <<"y">>
                   THEN ReturnErr(Err("Exiting", <<>>), done)
                   ELSE /\ sresult' = Ok(locals.keypair[1])
                        /\ spc' = "returned"
                        /\ io' = done
    /\ UNCHANGED <<token, files, sargs, source, exit_code, build, txvars, sizevars, run>>

\* the answer to "Continue? (y/n)" (signer.rs 284-292)
ReadConfirmation(read) ==
    /\ spc = "confirm_pubkey"
    /\ LET done == Append(io, "read_line stdin")
       IN  IF read.tag = "Err"
           THEN /\ sresult' = Panic("Unexpected input")
                /\ spc' = "returned"
                /\ io' = done
                /\ UNCHANGED <<exit_code, locals>>
           ELSE /\ locals' = [locals EXCEPT !.input = Some(read.value)]
                /\ IF trim(to_lowercase(read.value)) # <<"y">>
                   THEN /\ io' = Append(done, "println Exiting")
                        /\ exit_code' = Some(1)
                        /\ spc' = "exited"
                        /\ UNCHANGED sresult
                   ELSE /\ sresult' = Ok(locals.keypair[1])
                        /\ spc' = "returned"
                        /\ io' = done
                        /\ UNCHANGED exit_code
    /\ UNCHANGED <<token, files, sargs, source, build, txvars, sizevars, run>>

SignerNext ==
    \/ KeypairFromPath
    \/ \E read \in Reads({StoredKeypair}) : ReadKeypairFile(read)
    \/ \E read \in Reads({StoredKeypair}) : ReadKeypairStdin(read)
    \/ PromptSeedPhrase(Phrases)
    \/ \E read \in Reads(Passphrases) : PromptPassphrase(read)
    \/ \E read \in Reads(Passphrases) : PromptPassphraseAgain(read)
    \/ \E read \in Reads(Answers) : ReadConfirmation(read)

SignerSpec == SignerInit /\ [][SignerNext]_vars

----------------------------------------------------------------------------
(* Properties of keypair_from_path and keypair_from_seed_phrase *)

\* the operation was done
Did(operation) == \E i \in DOMAIN io : io[i] = operation
\* the first time the operation was done
First(operation) == Least({i \in DOMAIN io : io[i] = operation})

SourceKind == source.value.kind.variant
ParsedAs(variants) == source # <<>> /\ source.tag = "Ok" /\ SourceKind \in variants

PromptOperations ==
    {"prompt_password seed phrase", "prompt_password passphrase",
     "prompt_password passphrase again", "derive", "print Recovered pubkey",
     "read_line stdin", "println Exiting"}

\* C13: keypair_from_path returns a key pair only for a Prompt, Filepath or
\* Stdin source; for a Usb or Pubkey source it returns the 'does not support
\* Keypair output' error and has not prompted, read a file or read stdin; and
\* every call does the operations of one acquisition strategy only, the one of
\* the kind parsed, a file and stdin being read once at most.
C13_OneStrategyPerKind ==
    /\ (sresult # <<>> /\ sresult.tag = "Ok") => ParsedAs({"Prompt", "Filepath", "Stdin"})
    /\ ParsedAs({"Usb", "Pubkey"}) =>
           /\ spc = "returned"
           /\ sresult = Err("does not support Keypair output", <<SourceKind>>)
           /\ io = <<>>
    /\ (source # <<>> /\ source.tag = "Err") => io = <<>> /\ sresult = source
    /\ ParsedAs({"Prompt"}) => \A i \in DOMAIN io : io[i] \in PromptOperations
    /\ ParsedAs({"Filepath"}) => io \in {<<>>, <<"read_keypair_file">>}
    /\ ParsedAs({"Stdin"}) => io \in {<<>>, <<"read_keypair stdin">>}

\* a hardware wallet source was refused
C13_Witness == ParsedAs({"Usb"}) /\ spc = "returned" /\ sresult.tag = "Err"

\* C14: with or without validation, a non-empty passphrase is entered a second
\* time; if the two entries differ the call returns the mismatch error, no
\* seed or key has been derived and no key pair is returned; an empty
\* passphrase is not entered a second time.
C14_PassphraseMismatchBeforeDerivation ==
    /\ (locals.confirmed # None /\ locals.confirmed[1] # locals.passphrase) =>
           /\ spc = "returned"
           /\ sresult = Err("Passphrases did not match", <<>>)
           /\ ~Did("derive")
           /\ locals.keypair = None
    /\ (Did("prompt_password passphrase") /\ locals.passphrase # ""
            /\ spc # "confirm_passphrase") => Did("prompt_password passphrase again")
    /\ (Did("derive") /\ locals.passphrase # "") =>
           /\ locals.confirmed = Some(locals.passphrase)
           /\ First("prompt_password passphrase again") < First("derive")
    /\ locals.passphrase = "" => ~Did("prompt_password passphrase again")

\* the second entry differed from the first, validation skipped
C14_Witness ==
    /\ sargs # <<>>
    /\ sargs.skip_seed_phrase_validation
    /\ locals.confirmed # None
    /\ locals.confirmed[1] # locals.passphrase
    /\ spc = "returned"

\* the languages under which a phrase validates, as positions in LANGUAGES
ValidatingLanguages(phrase) ==
    {i \in DOMAIN LANGUAGES : Mnemonic_from_phrase(phrase, LANGUAGES[i]).tag = "Ok"}

Validating == sargs # <<>> /\ ~sargs.skip_seed_phrase_validation
SeedPhraseRead ==
    /\ ParsedAs({"Prompt"})
    /\ Did("prompt_password seed phrase")
    /\ ~(spc = "returned" /\ sresult = IoError /\ Len(io) = 1)

\* C15: when validation is not skipped, the mnemonic is the one of the first
\* language, in the order English, ChineseSimplified, ChineseTraditional,
\* Japanese, Spanish, Korean, French, Italian, under which the sanitized
\* phrase validates; a phrase that validates in none makes the call fail with
\* no passphrase prompt and no derivation.
C15_FirstValidatingLanguage ==
    (Validating /\ SeedPhraseRead) =>
        LET sanitized == sanitize_seed_phrase(locals.seed_phrase)
            valid == ValidatingLanguages(sanitized)
        IN  IF valid = {}
            THEN /\ spc = "returned"
                 /\ sresult = Err("Can't get mnemonic from seed phrases", <<>>)
                 /\ io = <<"prompt_password seed phrase">>
                 /\ locals.mnemonic = None
                 /\ locals.keypair = None
            ELSE /\ locals.mnemonic # None
                 /\ locals.mnemonic[1].language = LANGUAGES[Least(valid)]
                 /\ \A i \in 1..(Least(valid) - 1) : i \notin valid

\* a phrase that validates in two languages, neither of them the first of
\* the list, was resolved
C15_Witness ==
    /\ Validating
    /\ SeedPhraseRead
    /\ Cardinality(ValidatingLanguages(sanitize_seed_phrase(locals.seed_phrase))) = 2
    /\ locals.mnemonic # None
    /\ locals.mnemonic[1].language = "French"

\* the answer is affirmative: it is y or Y between optional whitespace
Affirmative(answer) == trim(answer) \in {<<"y">>, <<"Y">>}

C17_SeedPhraseCanonical ==
    (ParsedAs({"Prompt"}) /\ locals.keypair # None) =>
        locals.keypair[1].seed.phrase = sanitize_seed_phrase(locals.seed_phrase)

----------------------------------------------------------------------------
(* run() with the create-tree subcommand *)

\* the copy of create_tree the binary calls: the one of main.rs or the one
\* of bubblegum.rs
Crates == {"main", "bubblegum"}

\* the (depth, buffer_size, canopy_depth) given on the command line: a valid
\* tree, an invalid depth, an invalid buffer size, a canopy too deep for u64
CREATE_TREE_ARGS == {<<14, 64, 0>>, <<10, 64, 0>>, <<14, 8, 1>>, <<3, 8, 58>>}

\* the keypair paths and the seed phrases typed of a run
RUN_PATHS == {t \in SIGNER_TOKENS : t.text \in {"ASK", "id.json", "usb://ledger", "ask"}}
RunPhrases == {<<"x">>, <<"X">>}

\* the answers of the node to getMinimumBalanceForRentExemption
RentAnswers == {Ok(1), Err("rpc error", <<>>)}

RunInit ==
    /\ build \in Builds
    /\ TxInit
    /\ SIZES = [initialized |-> FALSE, map |-> <<>>]
    /\ call \in {CallOf("tree_size", a[1], a[2], a[3]) : a \in CREATE_TREE_ARGS}
    /\ returned = <<>>
    /\ token \in RUN_PATHS
    /\ files = {"id.json"}
    /\ sargs \in SignerArgs
    /\ spc = "idle"
    /\ source = <<>>
    /\ locals = NoLocals
    /\ io = <<>>
    /\ sresult = <<>>
    /\ exit_code = None
    /\ \E crate \in Crates :
           run = [stage |-> "Config::load", crate |-> crate, rent |-> None,
                  requests |-> <<>>, result |-> None]

\* run() returns
Return(res) == [run EXCEPT !.stage = "returned", !.result = Some(res)]

\* Config::load(&solana_config) ... .context(...)? (main.rs 336-344); then
\* keypair_from_path is called
LoadConfig(loaded) ==
    /\ run # <<>>
    /\ run.stage = "Config::load"
    /\ IF loaded
       THEN /\ run' = [run EXCEPT !.stage = "keypair_from_path"]
            /\ spc' = "start"
       ELSE /\ run' = Return(Err("Error loading Solana CLI configuration", <<>>))
            /\ UNCHANGED spc
    /\ UNCHANGED <<token, files, sargs, source, locals, io, sresult, exit_code, build,
                   txvars, sizevars>>

\* keypair_from_path has returned: .context("Error parsing signer keypair")?,
\* then the RPC client and the async runtime are made (main.rs 346-365)
SetUpClient(outcome) ==
    /\ run # <<>>
    /\ run.stage = "keypair_from_path"
    /\ spc = "returned"
    /\ run' = IF sresult.tag = "Panic" THEN Return(sresult)
              ELSE IF sresult.tag = "Err"
                  THEN Return(Err("Error parsing signer keypair", <<sresult.label>>))
              ELSE IF outcome # "ok" THEN Return(Err(outcome, <<>>))
              ELSE [run EXCEPT !.stage = "tree_size"]
    /\ UNCHANGED <<build, txvars, sizevars, signervars>>

SetUpOutcomes ==
    {"ok", "Invalid commitment level in Solana CLI configuration",
     "Error initializing async runtime"}

\* let size = tree_size(depth, buffer_size, canopy_depth)? (bubblegum.rs 135),
\* or the block computing size in main.rs (184-234)
CreateTreeSize ==
    /\ run # <<>>
    /\ run.stage = "tree_size"
    /\ SIZES' = IF run.crate = "bubblegum" THEN deref(SIZES) ELSE SIZES
    /\ LET size == IF run.crate = "bubblegum"
                   THEN merkle_tree_get_size(SIZES'.map, call.depth, call.buffer_size)
                   ELSE main_merkle_tree_get_size(call.depth, call.buffer_size)
           total == tree_size_from(size, call.canopy_depth)
       IN  /\ returned' = <<total>>
           /\ run' = IF total.tag = "Ok"
                     THEN [run EXCEPT !.stage = "get_minimum_balance_for_rent_exemption"]
                     ELSE Return(total)
    /\ UNCHANGED <<call, build, txvars, signervars>>

\* a mutation of the rent query: a failed query counts as a rent of zero
GetMinimumBalanceForRentExemption_OrDefault(answer) ==
    /\ run # <<>>
    /\ run.stage = "get_minimum_balance_for_rent_exemption"
    /\ run' = [run EXCEPT
                  !.requests = Append(@, Request("getMinimumBalanceForRentExemption",
                                                 returned[1].value)),
                  !.rent = Some(answer),
                  !.stage = "send_transaction"]
    /\ UNCHANGED <<build, txvars, sizevars, signervars>>

\* client.get_minimum_balance_for_rent_exemption(size).await.context(...)?
\* (bubblegum.rs 136-139, main.rs 236-239)
GetMinimumBalanceForRentExemption(answer) ==
    /\ run # <<>>
    /\ run.stage = "get_minimum_balance_for_rent_exemption"
    /\ LET asked == [run EXCEPT
                        !.requests = Append(@, Request("getMinimumBalanceForRentExemption",
                                                       returned[1].value)),
                        !.rent = Some(answer)]
       IN  run' = IF answer.tag = "Ok"
                  THEN [asked EXCEPT !.stage = "send_transaction"]
                  ELSE [asked EXCEPT
                           !.stage = "returned",
                           !.result = Some(Err(
                               "Error getting rent exemption balance for new tree", <<>>))]
    /\ UNCHANGED <<build, txvars, sizevars, signervars>>

\* client.send_transaction(&[create_account, CreateTree], Some(&pubkey),
\* &[keypair, &tree]) (bubblegum.rs 141-173, main.rs 241-280)
CreateTreeSendTransaction ==
    /\ run # <<>>
    /\ run.stage = "send_transaction"
    /\ pc = "idle"
    /\ Call({"payer", "tree"}, {"payer", "tree"})

\* send_transaction has returned, and so do create_tree and run()
CreateTreeReturn ==
    /\ run # <<>>
    /\ run.stage = "send_transaction"
    /\ pc = "returned"
    /\ run' = Return(result)
    /\ UNCHANGED <<build, txvars, sizevars, signervars>>

RunNext ==
    \/ \E loaded \in BOOLEAN : LoadConfig(loaded)
    \/ KeypairFromPath
    \/ \E read \in Reads({StoredKeypair}) : ReadKeypairFile(read)
    \/ PromptSeedPhrase(RunPhrases)
    \/ \E read \in Reads(Passphrases) : PromptPassphrase(read)
    \/ \E read \in Reads(Passphrases) : PromptPassphraseAgain(read)
    \/ \E read \in Reads(Answers) : ReadConfirmation(read)
    \/ \E outcome \in SetUpOutcomes : SetUpClient(outcome)
    \/ CreateTreeSize
    \/ \E answer \in RentAnswers : GetMinimumBalanceForRentExemption(answer)
    \/ CreateTreeSendTransaction
    \/ \E answer \in BlockhashAnswers : GetLatestBlockhash(answer)
    \/ BuildAndSign
    \/ \E accepted \in BOOLEAN : SendTransaction(accepted)
    \/ \E answer \in BlockhashAnswers : GetRecentBlockhash(answer)
    \/ \E confirmed \in BOOLEAN : ConfirmTransaction(confirmed)
    \/ CreateTreeReturn

RunSpec == RunInit /\ [][RunNext]_vars

----------------------------------------------------------------------------
(* Properties of the create-tree invocation *)

SignerResolved == spc = "returned" /\ sresult.tag = "Ok"
SizeFound == returned # <<>> /\ returned[1].tag = "Ok"
RentFound == run.rent # None /\ run.rent[1].tag = "Ok"
\* send_transaction was called
Submitting == pc # "idle"
\* the requests sent to the node, by create_tree and by send_transaction
NodeRequests == run.requests \o requests

\* C18: the steps of a create-tree invocation happen in the order signer
\* resolution with all its prompts, capacity lookup, rent-exemption query,
\* transaction submission, each one only after all the earlier ones
\* succeeded: a failed signer resolution or an invalid (depth, buffer_size)
\* leaves the node without any request, and a failed rent query leaves no
\* transaction built or sent.
C18_StepsInOrderFailureStops ==
    /\ returned # <<>> => SignerResolved
    /\ run.rent # None => SignerResolved /\ SizeFound
    /\ Submitting => SignerResolved /\ SizeFound /\ RentFound
    /\ NodeRequests # <<>> =>
           /\ SignerResolved /\ SizeFound
           /\ NodeRequests[1] =
                  Request("getMinimumBalanceForRentExemption", returned[1].value)
           /\ Len(run.requests) = 1
    /\ ~SignerResolved => returned = <<>> /\ NodeRequests = <<>> /\ ~Submitting
    /\ (returned # <<>> /\ ~SizeFound) =>
           /\ NodeRequests = <<>> /\ ~Submitting
           /\ run.stage = "returned"
           /\ run.result = Some(returned[1])
    /\ (run.rent # None /\ ~RentFound) =>
           /\ ~Submitting /\ txn = <<>> /\ requests = <<>>
           /\ run.stage = "returned"
           /\ run.result =
                  Some(Err("Error getting rent exemption balance for new tree", <<>>))
    /\ run.stage \in {"Config::load", "keypair_from_path"} =>
           returned = <<>> /\ NodeRequests = <<>> /\ ~Submitting
    /\ run.stage \notin {"Config::load", "keypair_from_path", "returned"} =>
           SignerResolved

\* the seed phrase was prompted for, the size found, and the rent query failed
C18_Witness ==
    /\ run # <<>>
    /\ Did("prompt_password seed phrase")
    /\ SizeFound
    /\ run.rent # None
    /\ ~RentFound
    /\ run.stage = "returned"

====
